---- MODULE Spec2Model ----
\* Model of the fetch-variant pipeline of pubsys
\* (tools/pubsys/src/repo/fetch_varaint/mod.rs): fetch_varaint loads the
\* signed repository, download_target validates the target name, asks the
\* repository for the target's stream, bridges it to a blocking reader,
\* wraps it in an LZ4 decoder, opens the destination file and copies the
\* decoded bytes into it.
EXTENDS Integers, Sequences, FiniteSets, TLC

\* ---------------------------------------------------------------- bounds
MaxNameLen == 3        \* characters of buildsys_name_friendly
MaxOldLen == 2         \* bytes of a destination file that exists before the run
MaxDelivered == 4      \* compressed bytes the content stream delivers
MaxChunk == 2          \* bytes of one chunk of the content stream
MaxOther == 1          \* steps of an unrelated task of the same executor

\* ------------------------------------------------------- paths and names
NameChars == {"/", ".", "a"}

\* the --outdir argument (run, lines 140-146): an existing absolute directory
OutDir == <<"/", "o">>

\* format!("{}.img.lz4", buildsys_name_friendly)
Suffix == <<".", "i", "m", "g", ".", "l", "z", "4">>

FormatTarget(friendly) == friendly \o Suffix

IsAbsolute(p) == p # <<>> /\ Head(p) = "/"

\* PathBuf::join: an absolute argument replaces the base, a relative one is
\* appended after a separator
PathJoin(base, t) ==
    IF IsAbsolute(t) THEN t
    ELSE IF base # <<>> /\ base[Len(base)] = "/" THEN base \o t
    ELSE base \o <<"/">> \o t

RECURSIVE SplitComps(_, _)
SplitComps(s, cur) ==
    IF s = <<>> THEN (IF cur = <<>> THEN <<>> ELSE <<cur>>)
    ELSE IF Head(s) = "/"
         THEN (IF cur = <<>> THEN <<>> ELSE <<cur>>) \o SplitComps(Tail(s), <<>>)
         ELSE SplitComps(Tail(s), Append(cur, Head(s)))

\* the components of a path: empty components and "." are dropped
Components(p) == SelectSeq(SplitComps(p, <<>>), LAMBDA c : c # <<".">>)

RECURSIVE Resolve(_, _)
\* what the operating system resolves an absolute path to: ".." leaves the
\* directory reached so far (the root is its own parent)
Resolve(comps, stack) ==
    IF comps = <<>> THEN stack
    ELSE IF Head(comps) = <<".", ".">>
         THEN Resolve(Tail(comps),
                      IF stack = <<>> THEN <<>> ELSE SubSeq(stack, 1, Len(stack) - 1))
         ELSE Resolve(Tail(comps), Append(stack, Head(comps)))

ResolvedPath(p) == Resolve(Components(p), <<>>)

\* the path names an entry below the output directory
InsideOutDir(p) ==
    LET d == ResolvedPath(OutDir)
        r == ResolvedPath(p)
    IN  /\ Len(r) > Len(d)
        /\ SubSeq(r, 1, Len(d)) = d

\* ------------------------------------------------------ the LZ4 frame
\* A frame is a magic byte, data bytes, and an end mark.
Magic == 9
EndMark == 0
DataBytes == {1, 2}
CBytes == {EndMark, Magic} \cup DataBytes

\* the decoded value of one data byte
DecodeByte(c) == c - 1

\* one step of the decoder on one compressed byte: the next decoder state and
\* the bytes it emits; "error" is a malformed frame
DecoderStep(st, c) ==
    IF st = "header"
    THEN IF c = Magic THEN [st |-> "body", out |-> <<>>]
                      ELSE [st |-> "error", out |-> <<>>]
    ELSE IF c = EndMark THEN [st |-> "done", out |-> <<>>]
         ELSE IF c \in DataBytes THEN [st |-> "body", out |-> <<DecodeByte(c)>>]
         ELSE [st |-> "error", out |-> <<>>]

RECURSIVE DecompressFrom(_, _)
\* the decompressed form of a whole compressed byte sequence
DecompressFrom(st, s) ==
    IF s = <<>> \/ st \in {"done", "error"} THEN <<>>
    ELSE LET r == DecoderStep(st, Head(s))
         IN  r.out \o DecompressFrom(r.st, Tail(s))

Decompress(s) == DecompressFrom("header", s)

\* --------------------------------------------------------- the file system
OldBytes == {7}

RECURSIVE SeqsUpTo(_, _)
SeqsUpTo(S, n) ==
    IF n = 0 THEN {<<>>}
    ELSE LET shorter == SeqsUpTo(S, n - 1)
         IN  shorter \cup {Append(s, x) : s \in shorter, x \in S}

Absent == [exists |-> FALSE, data |-> <<>>]
Existing(d) == [exists |-> TRUE, data |-> d]

\* OpenOptions::new().read(true).write(true).create(true).open(path):
\* a missing file is created empty, an existing file keeps its content
OpenCreate(f) == IF f.exists THEN f ELSE Existing(<<>>)

\* Write::write_all of one byte at the cursor of the open file
WriteAt(f, at, b) ==
    Existing(IF at < Len(f.data) THEN [f.data EXCEPT ![at + 1] = b]
             ELSE Append(f.data, b))

\* ---------------------------------------------------------------- errors
NoError == [kind |-> "none", target |-> <<>>, path |-> <<>>]
Success == [kind |-> "Ok", target |-> <<>>, path |-> <<>>]

\* an error built without its context fields
Lz4DecodeNoTarget(t) == [kind |-> "Lz4Decode", target |-> <<>>, path |-> <<>>]
OpenImageFileNoPath(p) == [kind |-> "OpenImageFile", target |-> <<>>, path |-> <<>>]

\* error::Error::Repo (root_bytes, RepoLoad)
RepoError == [kind |-> "Repo", target |-> <<>>, path |-> <<>>]
TargetNameError(t) == [kind |-> "TargetName", target |-> t, path |-> <<>>]
TargetMissingError(t) == [kind |-> "TargetMissing", target |-> t, path |-> <<>>]
TargetReadError(t) == [kind |-> "TargetRead", target |-> t, path |-> <<>>]
Lz4DecodeError(t) == [kind |-> "Lz4Decode", target |-> t, path |-> <<>>]
OpenImageFileError(p) == [kind |-> "OpenImageFile", target |-> <<>>, path |-> p]
\* error::Error::WriteUpdate has a source and a backtrace, no target and no path
WriteUpdateError == [kind |-> "WriteUpdate", target |-> <<>>, path |-> <<>>]

\* ------------------------------------------------------------ the stream
\* the items a poll of the repository's content stream can yield
ChunkItem(c) == [tag |-> "chunk", bytes |-> c]
ErrItem == [tag |-> "err", bytes |-> <<>>]
EndItem == [tag |-> "end", bytes |-> <<>>]

StreamItems(room) ==
    {ErrItem, EndItem}
        \cup {ChunkItem(c) : c \in {s \in SeqsUpTo(CBytes, MaxChunk) :
                                        Len(s) >= 1 /\ Len(s) <= room}}

\* an item swallowed instead of mapped: the read sees an empty chunk
MapErrSwallow(item) == IF item.tag = "err" THEN ChunkItem(<<>>) ELSE item

\* stream.map(|next| next.map_err(|e| io::Error::new(ErrorKind::Other, e))):
\* a chunk stays a chunk, an error stays an error (now an I/O error)
MapErr(item) == item

\* ------------------------------------------------------------ control flow
StageOrder == <<"load", "validate", "read_target", "decoder_new", "open", "copy">>

Successor(stage) ==
    CASE stage = "root_bytes" -> "load"
      [] stage = "load" -> "validate"
      [] stage = "validate" -> "read_target"
      [] stage = "read_target" -> "decoder_new"
      [] stage = "decoder_new" -> "open"
      [] stage = "open" -> "copy"
      [] stage = "copy" -> "done"
      [] OTHER -> "done"

\* a failure that does not end the invocation: the next stage runs anyway
NextStageIgnore(stage, ok) == Successor(stage)

\* a failed stage run again instead of ending the invocation
NextStageRetry(stage, ok) == IF ok THEN Successor(stage) ELSE stage

\* the `?` after each stage: a failure returns from the invocation
NextStage(stage, ok) == IF ok THEN Successor(stage) ELSE "done"

\* the thread on which the decoder and std::io::copy run: they are called
\* inline in the async fn, between two await points
BlockingStageContext == "executor"

VARIABLES
    name,        \* buildsys_name_friendly
    nameValid,   \* the answer of the collaborator's name validation for the target
    file0,       \* the file at the destination path before the invocation
    pc,          \* the stage the invocation is about to run
    target,      \* the constructed target identifier
    filePath,    \* file_path
    rt,          \* what read_target returned
    dstate,      \* the state of the LZ4 decoder
    chunk,       \* the unread rest of the chunk the bridge holds
    delivered,   \* the compressed bytes the stream has delivered so far
    streamErr,   \* the stream has yielded an error item
    defect,      \* where the decoder reported a bad frame: "none", "new", "copy"
    file,        \* the file at the destination path
    pos,         \* the cursor of the open destination file
    result,      \* the outcome of the invocation
    log,         \* the stages run so far, in order
    other        \* steps taken by an unrelated task of the same executor

vars == <<name, nameValid, file0, pc, target, filePath, rt, dstate, chunk,
          delivered, streamErr, defect, file, pos, result, log, other>>

inputs == <<name, nameValid, file0>>

Init ==
    /\ name \in SeqsUpTo(NameChars, MaxNameLen)
    /\ nameValid \in BOOLEAN
    /\ file0 \in {Absent} \cup {Existing(d) : d \in SeqsUpTo(OldBytes, MaxOldLen)}
    /\ pc = "root_bytes"
    /\ target = <<>>
    /\ filePath = <<>>
    /\ rt = "none"
    /\ dstate = "none"
    /\ chunk = <<>>
    /\ delivered = <<>>
    /\ streamErr = FALSE
    /\ defect = "none"
    /\ file = file0
    /\ pos = 0
    /\ result = NoError
    /\ log = <<>>
    /\ other = 0

\* repo::root_bytes(root_role_path).await? (line 96)
RootBytes ==
    /\ pc = "root_bytes"
    /\ \E ok \in BOOLEAN :
        /\ pc' = NextStage("root_bytes", ok)
        /\ result' = IF ok THEN result ELSE RepoError
    /\ log' = Append(log, "root_bytes")
    /\ UNCHANGED <<inputs, target, filePath, rt, dstate, chunk, delivered,
                   streamErr, defect, file, pos, other>>

\* RepositoryLoader::new(..).load().await, then the target name is formatted
Load ==
    /\ pc = "load"
    /\ \E ok \in BOOLEAN :
        /\ pc' = NextStage("load", ok)
        /\ result' = IF ok THEN result ELSE RepoError
        /\ target' = IF ok THEN FormatTarget(name) ELSE target
    /\ log' = Append(log, "load")
    /\ UNCHANGED <<inputs, filePath, rt, dstate, chunk, delivered,
                   streamErr, defect, file, pos, other>>

\* download_target: outdir.join(target), then target.try_into()
Validate ==
    /\ pc = "validate"
    /\ filePath' = PathJoin(OutDir, target)
    /\ pc' = NextStage("validate", nameValid)
    /\ result' = IF nameValid THEN result ELSE TargetNameError(target)
    /\ log' = Append(log, "validate")
    /\ UNCHANGED <<inputs, target, rt, dstate, chunk, delivered,
                   streamErr, defect, file, pos, other>>

\* the file left behind when a creating open runs before the target is known
AbsentOutcomeCreates(t, f) == [result |-> TargetMissingError(t), file |-> OpenCreate(f)]

\* Ok(None) => return TargetMissing
AbsentOutcome(t, f) == [result |-> TargetMissingError(t), file |-> f]

\* a read_target failure reported as a missing target
ReadFailureAsMissing(t) == TargetMissingError(t)

\* Err(e) => return Err(e).context(TargetRead)
ReadFailure(t) == TargetReadError(t)

\* repo.read_target(&target).await
ReadTarget ==
    /\ pc = "read_target"
    /\ \E r \in {"Some", "None", "Err"} :
        /\ rt' = r
        /\ pc' = NextStage("read_target", r = "Some")
        /\ result' = CASE r = "Some" -> result
                       [] r = "None" -> AbsentOutcome(target, file).result
                       [] r = "Err" -> ReadFailure(target)
        /\ file' = IF r = "None" THEN AbsentOutcome(target, file).file ELSE file
    /\ log' = Append(log, "read_target")
    /\ UNCHANGED <<inputs, target, filePath, dstate, chunk, delivered,
                   streamErr, defect, pos, other>>

\* Decoder::new(SyncIoBridge::new(..)): the library may read the frame header
\* when the decoder is built (eager) or at the first read of the copy (lazy)
DecoderNew ==
    /\ pc = "decoder_new"
    /\ \/ /\ dstate' = "header"
          /\ pc' = NextStage("decoder_new", TRUE)
          /\ UNCHANGED <<chunk, delivered, streamErr, defect, result>>
       \/ \E raw \in StreamItems(MaxDelivered - Len(delivered)) :
            LET item == MapErr(raw)
                r == DecoderStep("header", Head(item.bytes))
                good == item.tag = "chunk" /\ item.bytes # <<>> /\ r.st # "error"
                empty == item.tag = "chunk" /\ item.bytes = <<>>
            IN  /\ streamErr' = (streamErr \/ raw.tag = "err")
                /\ delivered' = delivered \o item.bytes
                /\ chunk' = IF good THEN Tail(item.bytes) ELSE chunk
                /\ dstate' = IF good THEN r.st
                             ELSE IF empty THEN "header" ELSE "error"
                /\ defect' = IF good \/ empty \/ item.tag = "err" THEN defect ELSE "new"
                /\ pc' = NextStage("decoder_new", good \/ empty)
                /\ result' = IF good \/ empty THEN result ELSE Lz4DecodeError(target)
    /\ log' = Append(log, "decoder_new")
    /\ UNCHANGED <<inputs, target, filePath, rt, file, pos, other>>

\* OpenOptions::new().read(true).write(true).create(true).open(&file_path)
OpenFile ==
    /\ pc = "open"
    /\ \E ok \in BOOLEAN :
        /\ pc' = NextStage("open", ok)
        /\ file' = IF ok THEN OpenCreate(file) ELSE file
        /\ result' = IF ok THEN result ELSE OpenImageFileError(filePath)
    /\ pos' = 0
    /\ log' = Append(log, "open")
    /\ UNCHANGED <<inputs, target, filePath, rt, dstate, chunk, delivered,
                   streamErr, defect, other>>

\* std::io::copy(&mut reader, &mut file) is entered
CopyStart ==
    /\ pc = "copy"
    /\ pc' = "copying"
    /\ log' = Append(log, "copy")
    /\ UNCHANGED <<inputs, target, filePath, rt, dstate, chunk, delivered,
                   streamErr, defect, file, pos, result, other>>

\* a read of the copy loop finds the bridge empty: SyncIoBridge blocks on the
\* next item of the stream
CopyPoll ==
    /\ pc = "copying"
    /\ dstate \in {"header", "body"}
    /\ chunk = <<>>
    /\ \E raw \in StreamItems(MaxDelivered - Len(delivered)) :
        LET item == MapErr(raw)
        IN  /\ streamErr' = (streamErr \/ raw.tag = "err")
            /\ delivered' = delivered \o item.bytes
            /\ chunk' = item.bytes
            /\ defect' = IF item.tag = "end" THEN "copy" ELSE defect
            /\ dstate' = IF item.tag = "end" THEN "error" ELSE dstate
            /\ pc' = IF item.tag = "chunk" THEN pc ELSE NextStage("copy", FALSE)
            /\ result' = IF item.tag = "chunk" THEN result ELSE WriteUpdateError
    /\ UNCHANGED <<inputs, target, filePath, rt, file, pos, log, other>>

\* a read of the copy loop decodes the next compressed byte and the loop
\* writes what it produced at the cursor of the file
CopyDecode ==
    /\ pc = "copying"
    /\ dstate \in {"header", "body"}
    /\ chunk # <<>>
    /\ LET r == DecoderStep(dstate, Head(chunk))
       IN  /\ dstate' = r.st
           /\ chunk' = Tail(chunk)
           /\ defect' = IF r.st = "error" THEN "copy" ELSE defect
           /\ \E wok \in BOOLEAN :
                LET ok == r.st # "error" /\ (r.out = <<>> \/ wok)
                IN  /\ (r.st = "error" \/ r.out = <<>>) => wok
                    /\ pc' = IF ok THEN pc ELSE NextStage("copy", FALSE)
                    /\ result' = IF ok THEN result ELSE WriteUpdateError
                    /\ file' = IF ok /\ r.out # <<>>
                               THEN WriteAt(file, pos, r.out[1]) ELSE file
                    /\ pos' = IF ok /\ r.out # <<>> THEN pos + 1 ELSE pos
    /\ UNCHANGED <<inputs, target, filePath, rt, delivered, streamErr, log, other>>

\* the decoder has seen the end of the frame: its read returns 0, the copy
\* returns and download_target returns Ok(())
CopyFinish ==
    /\ pc = "copying"
    /\ dstate = "done"
    /\ pc' = NextStage("copy", TRUE)
    /\ result' = Success
    /\ UNCHANGED <<inputs, target, filePath, rt, dstate, chunk, delivered,
                   streamErr, defect, file, pos, log, other>>

\* the stages at which the invocation is suspended at an .await
AwaitPoints == {"root_bytes", "load", "read_target", "done"}

\* the executor thread can run another task
ExecutorFree == pc \in AwaitPoints \/ BlockingStageContext # "executor"

\* an unrelated task of the same executor takes a step
OtherTask ==
    /\ other < MaxOther
    /\ ExecutorFree
    /\ other' = other + 1
    /\ UNCHANGED <<inputs, pc, target, filePath, rt, dstate, chunk, delivered,
                   streamErr, defect, file, pos, result, log>>

Next ==
    \/ RootBytes
    \/ Load
    \/ Validate
    \/ ReadTarget
    \/ DecoderNew
    \/ OpenFile
    \/ CopyStart
    \/ CopyPoll
    \/ CopyDecode
    \/ CopyFinish
    \/ OtherTask

Spec == Init /\ [][Next]_vars

TypeOK ==
    /\ pc \in {"root_bytes", "load", "validate", "read_target", "decoder_new",
               "open", "copy", "copying", "done"}
    /\ rt \in {"none", "Some", "None", "Err"}
    /\ dstate \in {"none", "header", "body", "done", "error"}
    /\ defect \in {"none", "new", "copy"}
    /\ Len(delivered) <= MaxDelivered
    /\ pos <= Len(file.data)
    /\ other \in 0..MaxOther

\* ------------------------------------------------------------ properties
Ran(stage) == \E i \in 1..Len(log) : log[i] = stage

IsPrefix(a, b) == Len(a) <= Len(b) /\ a = SubSeq(b, 1, Len(a))

FullOrder == <<"root_bytes">> \o StageOrder

Failed == result.kind \notin {"none", "Ok"}

\* the bytes the copy has written into the destination file
Written == SubSeq(file.data, 1, pos)

\* C1: a fetch that returns success leaves the destination file's whole
\* content equal to the decompressed form of the content stream, whatever the
\* file held before (no byte of a pre-existing file survives).
C1_FileIsDecompressedStream ==
    result.kind = "Ok" => file.exists /\ file.data = Decompress(delivered)

\* C2: when read_target reports the target as absent, download_target returns
\* TargetMissing and the destination file is exactly what it was before the
\* invocation (not created, not modified).
C2_AbsentTargetLeavesFile ==
    rt = "None" =>
        /\ pc = "done"
        /\ result = TargetMissingError(target)
        /\ file = file0

C2_Witness ==
    /\ rt = "None"
    /\ pc = "done"
    /\ ~file0.exists
    /\ result.kind = "TargetMissing"

\* C3 (as stated): when the target identifier fails name validation, the
\* invocation ends with TargetName and neither the root metadata read, the
\* repository load, read_target nor the destination open has happened.
C3_NoAccessBeforeRejection ==
    (Ran("validate") /\ ~nameValid) =>
        /\ result.kind = "TargetName"
        /\ ~Ran("root_bytes") /\ ~Ran("load")
        /\ ~Ran("read_target") /\ ~Ran("open")

\* C3 (amended): when the target identifier fails name validation, the
\* invocation ends with TargetName naming the target, after the root metadata
\* read and the repository load and before any read_target or destination
\* open; the destination file is untouched.
C3_RejectionAfterLoadBeforeRead ==
    (Ran("validate") /\ ~nameValid) =>
        /\ pc = "done"
        /\ result = TargetNameError(target)
        /\ log = <<"root_bytes", "load", "validate">>
        /\ rt = "none"
        /\ file = file0

C3_Witness ==
    /\ Ran("validate")
    /\ ~nameValid
    /\ result.kind = "TargetName"
    /\ Components(target) # <<>>

\* C4 (as stated): whenever the decoder finds the compressed stream malformed
\* or truncated, at construction or during the copy, the invocation fails with
\* Lz4Decode carrying the target name.
C4_DefectIsLz4Decode ==
    defect # "none" => result = Lz4DecodeError(target)

\* C4 (amended): a malformed or truncated stream reported at decoder
\* construction fails the invocation with Lz4Decode carrying the target name;
\* one reported during the incremental copy fails it with WriteUpdate, which
\* carries no target name.
C4_DefectKindByStage ==
    /\ defect = "new" =>
        /\ result.kind = "Lz4Decode"
        /\ result.target = FormatTarget(name)
        /\ ~Ran("open")
    /\ defect = "copy" =>
        /\ result.kind = "WriteUpdate"
        /\ result.target = <<>>
        /\ Ran("copy")
    /\ defect # "none" => pc = "done" /\ dstate = "error"

C4_Witness ==
    /\ defect = "copy"
    /\ result.kind = "WriteUpdate"
    /\ Len(delivered) >= 2
    /\ Head(delivered) = Magic

\* C5 (as stated): when read_target returned a stream and a later chunk of it
\* yields an error, the invocation fails with TargetRead naming the target.
C5_ChunkErrorIsTargetRead ==
    (rt = "Some" /\ streamErr) => result = TargetReadError(target)

\* C5 (amended): TargetRead naming the target is reported exactly when
\* read_target itself returns Err; an error of a later chunk reaches the read
\* that polled it as an I/O error and fails the invocation with that stage's
\* kind: WriteUpdate in the copy, Lz4Decode at decoder construction.
C5_ChunkErrorKindByStage ==
    /\ (rt = "Err") => result = TargetReadError(target) /\ pc = "done"
    /\ result.kind = "TargetRead" => rt = "Err"
    /\ streamErr =>
        /\ rt = "Some"
        /\ pc = "done"
        /\ \/ result = WriteUpdateError /\ Ran("copy")
           \/ result = Lz4DecodeError(target) /\ ~Ran("open")

C5_Witness ==
    /\ rt = "Some"
    /\ streamErr
    /\ result.kind = "WriteUpdate"
    /\ delivered # <<>>

\* C6: the destination path that download_target opens lies inside the output
\* directory for every target name that passed validation.
C6_DestinationInsideOutDir ==
    Ran("open") => InsideOutDir(filePath)

StageKinds(stage) ==
    CASE stage \in {"root_bytes", "load"} -> {"Repo"}
      [] stage = "validate" -> {"TargetName"}
      [] stage = "read_target" -> {"TargetMissing", "TargetRead"}
      [] stage = "decoder_new" -> {"Lz4Decode"}
      [] stage = "open" -> {"OpenImageFile"}
      [] stage = "copy" -> {"WriteUpdate"}

C9_StagesOnceInOrder ==
    /\ IsPrefix(log, FullOrder)
    /\ result.kind = "Ok" => log = FullOrder /\ pc = "done"
    /\ Failed => /\ pc = "done"
                 /\ log # <<>>
                 /\ result.kind \in StageKinds(log[Len(log)])
    /\ pc = "done" => result.kind # "none"

C9_Witness ==
    /\ result.kind = "Ok"
    /\ log = FullOrder
    /\ pc = "done"

\* C10: the blocking decompress-and-write stage does not occupy the executor
\* thread: while the copy runs (and waits for the next chunk) the executor can
\* run other tasks.
C10_CopyLeavesExecutorFree ==
    pc = "copying" => ExecutorFree

====
